---- MODULE Spec2Model ----
(***************************************************************************)
(* The LS-8 emulator of src/ls8/cpu.py: the CPU object (ram, reg, pc, ir,  *)
(* fl), the loader CPU.load and the fetch-decode-execute loop CPU.run with *)
(* the thirteen handlers of its branch table.  Values are Python ints      *)
(* (unbounded) and list subscripts follow Python: a subscript i of a list  *)
(* of length n is valid iff -n <= i < n, a negative one counts from the    *)
(* end, anything else raises IndexError.                                   *)
(***************************************************************************)
EXTENDS Integers, Sequences, FiniteSets, TLC

\* ------------------------------------------------------------- opcodes
ADD  == 160
LDI  == 130
PRN  == 71
HLT  == 1
MUL  == 162
PUSH == 69
POP  == 70
CALL == 80
RET  == 17
CMP  == 167
JMP  == 84
JEQ  == 85
JNE  == 86

\* The keys of self.branchtable.
branchtable == {LDI, PRN, HLT, MUL, ADD, PUSH, POP, CALL, RET, CMP, JMP, JEQ, JNE}

\* len(self.ram) and len(self.reg)
RamSize == 256
RegSize == 8

\* self.ir before the first fetch (None)
None == -1

\* ------------------------------------------------------------- bounds
\* Executed instructions per run (loops and growing registers are cut here).
MaxSteps == 10
\* Register operands of the generated programs range over 0..MaxRegOp
\* (8 and above are not registers).
MaxRegOp == 8

\* ---------------------------------------------------- Python subscripts
\* list[i] raises IndexError unless -n <= i < n
ValidIdx(i, n) == -n <= i /\ i < n
\* the cell a valid subscript denotes
Norm(i, n) == IF i < 0 THEN i + n ELSE i

\* self.ram[address]
ram_read_of(mem, address) == mem[Norm(address, RamSize)]
\* self.ram[address] = value
ram_write_of(mem, value, address) == [mem EXCEPT ![Norm(address, RamSize)] = value]

\* --------------------------------------------------------------- loader
Digits == {"0", "1", "2", "3", "4", "5", "6", "7", "8", "9"}
IsDigit(c) == c \in Digits

\* line[:8]
Shorten(line) == SubSeq(line, 1, IF Len(line) < 8 THEN Len(line) ELSE 8)
\* ''.join(filter(str.isdigit, shortend_line))
Clean(line) == SelectSeq(Shorten(line), IsDigit)

\* int(s, 2) is defined on strings of 0s and 1s only (ValueError otherwise)
IsBinary(s) == \A i \in 1..Len(s) : s[i] \in {"0", "1"}
RECURSIVE Int2(_)
Int2(s) == IF Len(s) = 0 THEN 0
           ELSE 2 * Int2(SubSeq(s, 1, Len(s) - 1)) + (IF s[Len(s)] = "1" THEN 1 ELSE 0)

\* Mutant of LoadLines: a skipped line still takes an address.
RECURSIVE LoadLines_shift(_, _, _)
LoadLines_shift(lines, mem, address) ==
    IF lines = <<>> THEN [ram |-> mem, address |-> address, err |-> "none"]
    ELSE LET cleaned_line == Clean(Head(lines)) IN
         IF Len(cleaned_line) = 8
         THEN IF ~IsBinary(cleaned_line)
              THEN [ram |-> mem, address |-> address, err |-> "ValueError"]
              ELSE IF ~ValidIdx(address, RamSize)
              THEN [ram |-> mem, address |-> address, err |-> "IndexError"]
              ELSE LoadLines_shift(Tail(lines),
                                   ram_write_of(mem, Int2(cleaned_line), address),
                                   address + 1)
         ELSE LoadLines_shift(Tail(lines), mem, address + 1)

\* The loop of CPU.load over the lines of the file: the state is
\* [ram, address, err]; a line whose cleaned prefix has 8 digits is written
\* at `address`, which then advances; any other line is skipped.
RECURSIVE LoadLines(_, _, _)
LoadLines(lines, mem, address) ==
    IF lines = <<>> THEN [ram |-> mem, address |-> address, err |-> "none"]
    ELSE LET cleaned_line == Clean(Head(lines)) IN
         IF Len(cleaned_line) = 8
         THEN IF ~IsBinary(cleaned_line)
              THEN [ram |-> mem, address |-> address, err |-> "ValueError"]
              ELSE IF ~ValidIdx(address, RamSize)
              THEN [ram |-> mem, address |-> address, err |-> "IndexError"]
              ELSE LoadLines(Tail(lines),
                             ram_write_of(mem, Int2(cleaned_line), address),
                             address + 1)
         ELSE LoadLines(Tail(lines), mem, address)

\* ---------------------------------------------------- program files
\* The text of one well-formed line: the byte in binary, then a newline.
BinLine(b) == [i \in 1..9 |-> IF i = 9 THEN "\n"
                              ELSE IF (b \div (2 ^ (8 - i))) % 2 = 1 THEN "1" ELSE "0"]
FileOf(bytes) == [i \in 1..Len(bytes) |-> BinLine(bytes[i])]

\* Lines the loader skips: a comment, a blank line, a short number.
CommentLine == <<"#", " ", "l", "s", "8", "\n">>
BlankLine == <<"\n">>
ShortLine == <<"1", "0", "1", "\n">>

\* Immediate values and register operands of the generated programs.
Vals == {0, 8, 9, 10, 250}
RegOps == 0..MaxRegOp

\* LDI A,a; LDI B,b; op A,B; CMP B,A; PRN A; HLT
ALUProg(op, A, B, a, b) ==
    <<LDI, A, a, LDI, B, b, op, A, B, CMP, B, A, PRN, A, HLT>>
ALUProgs == {ALUProg(op, A, B, a, b) :
                op \in {ADD, MUL, CMP}, A \in RegOps, B \in RegOps, a \in Vals, b \in Vals}

\* LDI 0,a; LDI 1,b; MUL 0,1; PRN 0; HLT, also as a file with a comment, a
\* blank and a short line between its lines.
MultProg(a, b) == <<LDI, 0, a, LDI, 1, b, MUL, 0, 1, PRN, 0, HLT>>
Annotated(bytes) ==
    <<CommentLine>> \o FileOf(SubSeq(bytes, 1, 3)) \o <<BlankLine, ShortLine>>
        \o FileOf(SubSeq(bytes, 4, Len(bytes)))

\* Set two registers, optionally compare them, point register 2 at t, then a
\* control transfer J with operand r; PRN and HLT follow for the untaken case.
BranchTargets == {0, 14, 16, 253, 254, 255}
BranchProg(J, r, t, a, b, compare) ==
    <<LDI, 0, a, LDI, 1, b>> \o (IF compare THEN <<CMP, 0, 1>> ELSE <<>>)
        \o <<LDI, 2, t, J, r, PRN, 0, HLT>>
BranchProgs == {BranchProg(J, r, t, a, b, c) :
                   J \in {JMP, JEQ, JNE, CALL, RET}, r \in RegOps, t \in BranchTargets,
                   a \in Vals, b \in {9}, c \in BOOLEAN}

\* Set the stack pointer to s, two stack instructions, then jump to t (r = 0)
\* or to the stack pointer (r = 7).
SPVals == {0, 1, 244, 254, 255}
StackOps == {<<op, x>> : op \in {PUSH, POP, CALL}, x \in {0, HLT, RET}} \cup {<<RET>>}
StackProg(s, S1, S2, t, r) ==
    <<LDI, 7, s>> \o S1 \o S2 \o <<LDI, 0, t, JMP, r>>
StackProgs == {StackProg(s, S1, S2, t, r) :
                  s \in SPVals, S1 \in StackOps, S2 \in StackOps,
                  t \in {253, 254, 255}, r \in {0, 7}}

MultProgs == {MultProg(a, b) : a \in Vals, b \in Vals}

\* Point register 4 at the RET in cell 5, CALL at 3 with operand x (CALL jumps
\* to reg[4]), RET; HLT at 6 and 9, PRN at 7.
CallRetProg(x) == <<LDI, 4, 5, CALL, x, RET, HLT, PRN, 0, HLT>>
\* CALL at 6 with operand RET: it jumps to reg[7], the stack slot it has just
\* filled with its operand byte.
CallSlotProg(s) == <<LDI, 7, s, LDI, 0, 0, CALL, RET>>
CallRetProgs == {CallRetProg(x) : x \in {0, 5, 6, 7}}
                   \cup {CallSlotProg(s) : s \in {20, 244}}

\* Set the stack pointer into the program itself, two PUSH/POP instructions
\* (which then overwrite cells of the program), PRN and HLT; no jump.
SelfModProg(s, S1, S2) == <<LDI, 7, s>> \o S1 \o S2 \o <<PRN, 0, HLT>>
SelfModProgs == {SelfModProg(s, S1, S2) :
                    s \in {4, 6, 8, 9},
                    S1 \in {<<op, x>> : op \in {PUSH, POP}, x \in {0, HLT, RET}},
                    S2 \in {<<op, x>> : op \in {PUSH, POP}, x \in {0, HLT, RET}}}

Programs == ALUProgs \cup BranchProgs \cup StackProgs \cup MultProgs
                \cup CallRetProgs \cup SelfModProgs

\* More lines for the loader: eight digits that are not binary, a number
\* broken by a space, an indented number, HLT followed by a comment, HLT
\* with no newline after it.
NonBinaryLine == <<"0", "0", "0", "0", "0", "0", "0", "2", "\n">>
SpacedLine == <<"1", "0", "0", "0", " ", "0", "0", "1", "0", "\n">>
IndentedLine == <<" ", "0", "0", "0", "0", "0", "0", "0", "1", "\n">>
CommentedHlt == <<"0", "0", "0", "0", "0", "0", "0", "1", " ", "#", " ", "H", "L", "T", "\n">>
BareHlt == <<"0", "0", "0", "0", "0", "0", "0", "1">>
OddLines == {CommentLine, BlankLine, ShortLine, NonBinaryLine, SpacedLine,
             IndentedLine, CommentedHlt}

\* The file of `bytes` with `line` put after its first k lines.
Inserted(bytes, k, line) ==
    FileOf(SubSeq(bytes, 1, k)) \o <<line>> \o FileOf(SubSeq(bytes, k + 1, Len(bytes)))
LoaderFiles == {Inserted(MultProg(8, 9), k, l) : k \in {0, 3, 8, 11}, l \in OddLines}
\* A file whose last line has no newline (only the last line of a file can).
NoFinalNewline == FileOf(SubSeq(MultProg(8, 9), 1, 11)) \o <<BareHlt>>
\* One line more than memory has cells.
LongFile == [i \in 1..(RamSize + 1) |-> BinLine(HLT)]

Files == {FileOf(p) : p \in Programs}
            \cup {Annotated(MultProg(a, b)) : a \in Vals, b \in Vals}
            \cup LoaderFiles \cup {NoFinalNewline, LongFile}

\* ---------------------------------------------------------------- state
VARIABLES
    ram,       \* self.ram
    reg,       \* self.reg
    pc,        \* self.pc
    ir,        \* self.ir
    fl,        \* self.fl
    status,    \* "new", "running", "halted" (SystemExit) or the exception raised
    output,    \* the values printed, in order
    file,      \* the lines of the file given to load
    steps,     \* instructions dispatched so far
    accessed,  \* the subscripts applied to self.ram in the last iteration
    hist       \* [op, sp, pc] before each of the last two dispatched instructions

vars == <<ram, reg, pc, ir, fl, status, output, file, steps, accessed, hist>>

Faults == {"IndexError", "KeyError", "ValueError", "Exception"}

\* self.stack_pointer
stack_pointer == reg[7]

\* CPU.__init__
Init ==
    /\ ram = [a \in 0..(RamSize - 1) |-> 0]
    /\ reg = [r \in 0..(RegSize - 1) |-> IF r = 7 THEN 244 ELSE 0]
    /\ pc = 0
    /\ ir = None
    /\ fl = 0
    /\ status = "new"
    /\ output = <<>>
    /\ file = <<>>
    /\ steps = 0
    /\ accessed = {}
    /\ hist = <<>>

\* CPU.load(filepath): fill memory from the file, then enter run().
Load ==
    /\ status = "new"
    /\ \E f \in Files :
         LET r == LoadLines(f, ram, 0) IN
         /\ file' = f
         /\ ram' = r.ram
         /\ status' = IF r.err = "none" THEN "running" ELSE r.err
    /\ UNCHANGED <<reg, pc, ir, fl, output, steps, accessed, hist>>

\* ------------------------------------------------------------- handlers
\* A handler is a function of the current state giving the state it leaves:
\* the fields it may change, st = "running" or the exception it raised (with
\* the assignments made before the raise kept), and acc, the subscripts it
\* applied to self.ram.
Cur == [reg |-> reg, ram |-> ram, pc |-> pc, fl |-> fl, out |-> output,
        st |-> "running", acc |-> {}]

\* oper_a = self.ram[self.pc + 1]; oper_b = self.ram[self.pc + 2]
oper_a == ram_read_of(ram, pc + 1)
oper_b == ram_read_of(ram, pc + 2)

\* Mutant of Compare: the less-than and greater-than bits exchanged.
Compare_swapped(x, y) == IF x < y THEN 2 ELSE IF x > y THEN 4 ELSE IF x = y THEN 1 ELSE fl

\* Mutant of Compare: the new bit is set without clearing the old ones.
Compare_accum(x, y) ==
    LET bit == IF x < y THEN 4 ELSE IF x > y THEN 2 ELSE 1
    IN IF (fl \div bit) % 2 = 1 THEN fl ELSE fl + bit

\* The if/elif chain of the CMP branch of CPU.alu: the value it leaves in
\* self.fl (unchanged when no branch applies).
Compare(x, y) == IF x < y THEN 4 ELSE IF x > y THEN 2 ELSE IF x = y THEN 1 ELSE fl

\* CPU.alu(op, reg_a, reg_b)
alu(op, reg_a, reg_b) ==
    IF op \notin {"ADD", "MUL", "CMP"} THEN [Cur EXCEPT !.st = "Exception"]
    ELSE IF ~ValidIdx(reg_a, RegSize) \/ ~ValidIdx(reg_b, RegSize)
    THEN [Cur EXCEPT !.st = "IndexError"]
    ELSE LET x == reg[Norm(reg_a, RegSize)]
             y == reg[Norm(reg_b, RegSize)]
         IN CASE op = "ADD" -> [Cur EXCEPT !.reg[Norm(reg_a, RegSize)] = x + y]
              [] op = "MUL" -> [Cur EXCEPT !.reg[Norm(reg_a, RegSize)] = x * y]
              [] op = "CMP" -> [Cur EXCEPT !.fl = Compare(x, y)]

\* Mutant of CPU_LDI: the two operands exchanged (register oper_b gets oper_a).
CPU_LDI_swapped ==
    LET register_address == ram_read_of(ram, pc + 2)
        register_value == ram_read_of(ram, pc + 1)
    IN IF ~ValidIdx(register_address, RegSize)
       THEN [Cur EXCEPT !.st = "IndexError", !.acc = {pc + 1, pc + 2}]
       ELSE [Cur EXCEPT !.reg[Norm(register_address, RegSize)] = register_value,
                        !.acc = {pc + 1, pc + 2}]

\* CPU.LDI
CPU_LDI ==
    LET register_address == ram_read_of(ram, pc + 1)
        register_value == ram_read_of(ram, pc + 2)
    IN IF ~ValidIdx(register_address, RegSize)
       THEN [Cur EXCEPT !.st = "IndexError", !.acc = {pc + 1, pc + 2}]
       ELSE [Cur EXCEPT !.reg[Norm(register_address, RegSize)] = register_value,
                        !.acc = {pc + 1, pc + 2}]

\* CPU.PRN
CPU_PRN ==
    LET r == ram_read_of(ram, pc + 1) IN
    IF ~ValidIdx(r, RegSize)
    THEN [Cur EXCEPT !.st = "IndexError", !.acc = {pc + 1}]
    ELSE [Cur EXCEPT !.out = Append(output, reg[Norm(r, RegSize)]), !.acc = {pc + 1}]

\* CPU.HLT: quit() raises SystemExit
CPU_HLT == [Cur EXCEPT !.st = "halted"]

\* Mutant of CPU_PUSH: the register named by the operand is pushed.
CPU_PUSH_reg ==
    LET sp == stack_pointer - 1
        reg1 == [reg EXCEPT ![7] = sp]
        r == ram_read_of(ram, pc + 1)
    IN IF ~ValidIdx(r, RegSize)
       THEN [Cur EXCEPT !.reg = reg1, !.st = "IndexError", !.acc = {pc + 1}]
       ELSE IF ~ValidIdx(sp, RamSize)
       THEN [Cur EXCEPT !.reg = reg1, !.st = "IndexError", !.acc = {pc + 1, sp}]
       ELSE [Cur EXCEPT !.reg = reg1,
                        !.ram = ram_write_of(ram, reg1[Norm(r, RegSize)], sp),
                        !.acc = {pc + 1, sp}]

\* CPU.PUSH
CPU_PUSH ==
    LET sp == stack_pointer - 1
        reg1 == [reg EXCEPT ![7] = sp]
    IN IF ~ValidIdx(sp, RamSize)
       THEN [Cur EXCEPT !.reg = reg1, !.st = "IndexError", !.acc = {pc + 1, sp}]
       ELSE [Cur EXCEPT !.reg = reg1,
                        !.ram = ram_write_of(ram, ram_read_of(ram, pc + 1), sp),
                        !.acc = {pc + 1, sp}]

\* Mutant of CPU_POP: the stack pointer is not incremented.
CPU_POP_noinc ==
    LET sp == stack_pointer IN
    IF ~ValidIdx(sp, RamSize)
    THEN [Cur EXCEPT !.st = "IndexError", !.acc = {sp}]
    ELSE [Cur EXCEPT !.ram = ram_write_of(ram, ram_read_of(ram, sp), pc + 1),
                     !.acc = {sp, pc + 1}]

\* CPU.POP
CPU_POP ==
    LET sp == stack_pointer IN
    IF ~ValidIdx(sp, RamSize)
    THEN [Cur EXCEPT !.st = "IndexError", !.acc = {sp}]
    ELSE [Cur EXCEPT !.ram = ram_write_of(ram, ram_read_of(ram, sp), pc + 1),
                     !.reg[7] = sp + 1,
                     !.acc = {sp, pc + 1}]

\* Mutant of CPU_CALL: the register is named by the operand byte, not by the
\* address pc + 1.
CPU_CALL_oper ==
    LET sp == stack_pointer - 1
        reg1 == [reg EXCEPT ![7] = sp]
        ram1 == ram_write_of(ram, ram_read_of(ram, pc + 1), sp)
    IN IF ~ValidIdx(sp, RamSize)
       THEN [Cur EXCEPT !.reg = reg1, !.st = "IndexError", !.acc = {pc + 1, sp}]
       ELSE IF ~ValidIdx(ram_read_of(ram, pc + 1), RegSize)
       THEN [Cur EXCEPT !.reg = reg1, !.ram = ram1, !.st = "IndexError",
                        !.acc = {pc + 1, sp}]
       ELSE [Cur EXCEPT !.reg = reg1, !.ram = ram1,
                        !.pc = reg1[Norm(ram_read_of(ram, pc + 1), RegSize)],
                        !.acc = {pc + 1, sp}]

\* Mutant of CPU_CALL: the return address pc + 2 is pushed, not the operand.
CPU_CALL_retaddr ==
    LET sp == stack_pointer - 1
        reg1 == [reg EXCEPT ![7] = sp]
        ram1 == ram_write_of(ram, pc + 2, sp)
    IN IF ~ValidIdx(sp, RamSize)
       THEN [Cur EXCEPT !.reg = reg1, !.st = "IndexError", !.acc = {pc + 1, sp}]
       ELSE IF ~ValidIdx(pc + 1, RegSize)
       THEN [Cur EXCEPT !.reg = reg1, !.ram = ram1, !.st = "IndexError",
                        !.acc = {pc + 1, sp}]
       ELSE [Cur EXCEPT !.reg = reg1, !.ram = ram1,
                        !.pc = reg1[Norm(pc + 1, RegSize)],
                        !.acc = {pc + 1, sp}]

\* CPU.CALL
CPU_CALL ==
    LET sp == stack_pointer - 1
        reg1 == [reg EXCEPT ![7] = sp]
        ram1 == ram_write_of(ram, ram_read_of(ram, pc + 1), sp)
    IN IF ~ValidIdx(sp, RamSize)
       THEN [Cur EXCEPT !.reg = reg1, !.st = "IndexError", !.acc = {pc + 1, sp}]
       ELSE IF ~ValidIdx(pc + 1, RegSize)
       THEN [Cur EXCEPT !.reg = reg1, !.ram = ram1, !.st = "IndexError",
                        !.acc = {pc + 1, sp}]
       ELSE [Cur EXCEPT !.reg = reg1, !.ram = ram1,
                        !.pc = reg1[Norm(pc + 1, RegSize)],
                        !.acc = {pc + 1, sp}]

\* CPU.RET
CPU_RET ==
    LET sp == stack_pointer IN
    IF ~ValidIdx(sp, RamSize)
    THEN [Cur EXCEPT !.st = "IndexError", !.acc = {sp}]
    ELSE [Cur EXCEPT !.pc = ram_read_of(ram, sp), !.reg[7] = sp + 1, !.acc = {sp}]

\* Mutant of CPU_JMP: it also decrements the stack pointer, as CALL does.
CPU_JMP_push ==
    LET r == ram_read_of(ram, pc + 1) IN
    IF ~ValidIdx(r, RegSize)
    THEN [Cur EXCEPT !.st = "IndexError", !.acc = {pc + 1}]
    ELSE [Cur EXCEPT !.pc = reg[Norm(r, RegSize)], !.reg[7] = stack_pointer - 1,
                     !.acc = {pc + 1}]

\* CPU.JMP
CPU_JMP ==
    LET r == ram_read_of(ram, pc + 1) IN
    IF ~ValidIdx(r, RegSize)
    THEN [Cur EXCEPT !.st = "IndexError", !.acc = {pc + 1}]
    ELSE [Cur EXCEPT !.pc = reg[Norm(r, RegSize)], !.acc = {pc + 1}]

\* CPU.JEQ
CPU_JEQ == IF fl = 1 THEN CPU_JMP ELSE [Cur EXCEPT !.pc = pc + 2]

\* CPU.JNE
CPU_JNE == IF fl # 1 THEN CPU_JMP ELSE [Cur EXCEPT !.pc = pc + 2]

\* ------------------------------------------------------------ run loop
\* The three subscripts of the fetch, in the order run() applies them.
FetchAddrs == <<pc, pc + 1, pc + 2>>
FetchOK == \A i \in 1..3 : ValidIdx(FetchAddrs[i], RamSize)

\* Mutant of sets_pc: the loop advances pc after every instruction.
sets_pc_never(op) == 0

\* Mutant of sets_pc: the loop never advances pc.
sets_pc_always(op) == 1

\* sets_pc = (self.ir & 0b00010000) >> 4
sets_pc(op) == (op \div 16) % 2
\* is_alu_op = (self.ir & 0b00100000) >> 5
is_alu_op(op) == (op \div 32) % 2
\* Mutant of Width: the operand count without the opcode's own cell.
Width_noinc(op) == (op % 256) \div 64

\* ((self.ir & 0b11000000) >> 6) + 1
Width(op) == ((op % 256) \div 64) + 1

Running == status = "running" /\ steps < MaxSteps

\* One iteration of the loop of run() whose opcode `op` has the handler
\* result `r`: the handler's state, then the automatic advance of pc unless
\* the opcode sets pc or the handler raised.
Dispatch(op, r) ==
    /\ Running
    /\ FetchOK
    /\ ram_read_of(ram, pc) = op
    \* the handler is called with the operands iff is_alu_op (the lambdas of
    \* the branch table take two arguments, the methods none)
    /\ is_alu_op(op) = (IF op \in {ADD, MUL, CMP} THEN 1 ELSE 0)
    /\ ir' = op
    /\ reg' = r.reg
    /\ ram' = r.ram
    /\ fl' = r.fl
    /\ output' = r.out
    /\ status' = r.st
    /\ pc' = IF r.st = "running" /\ sets_pc(op) = 0 THEN r.pc + Width(op) ELSE r.pc
    /\ steps' = steps + 1
    /\ accessed' = {pc, pc + 1, pc + 2} \cup r.acc
    /\ hist' = <<[op |-> op, sp |-> stack_pointer, pc |-> pc]>>
                  \o (IF hist = <<>> THEN <<>> ELSE <<hist[1]>>)
    /\ UNCHANGED file

RunLDI  == Dispatch(LDI, CPU_LDI)
RunPRN  == Dispatch(PRN, CPU_PRN)
RunHLT  == Dispatch(HLT, CPU_HLT)
RunMUL  == Dispatch(MUL, alu("MUL", oper_a, oper_b))
RunADD  == Dispatch(ADD, alu("ADD", oper_a, oper_b))
RunCMP  == Dispatch(CMP, alu("CMP", oper_a, oper_b))
RunPUSH == Dispatch(PUSH, CPU_PUSH)
RunPOP  == Dispatch(POP, CPU_POP)
RunCALL == Dispatch(CALL, CPU_CALL)
RunRET  == Dispatch(RET, CPU_RET)
RunJMP  == Dispatch(JMP, CPU_JMP)
RunJEQ  == Dispatch(JEQ, CPU_JEQ)
RunJNE  == Dispatch(JNE, CPU_JNE)

\* Mutant of UnknownInstruction: an unregistered opcode is skipped.
UnknownInstruction_skip ==
    /\ status = "running" /\ steps < MaxSteps
    /\ \A a \in {pc, pc + 1, pc + 2} : ValidIdx(a, RamSize)
    /\ ram_read_of(ram, pc) \notin branchtable
    /\ ir' = ram_read_of(ram, pc)
    /\ pc' = pc + 1
    /\ steps' = steps + 1
    /\ accessed' = {pc, pc + 1, pc + 2}
    /\ UNCHANGED <<ram, reg, fl, status, output, file, hist>>

\* self.branchtable[self.ir] with no such key: KeyError
UnknownInstruction ==
    /\ Running
    /\ FetchOK
    /\ ram_read_of(ram, pc) \notin branchtable
    /\ ir' = ram_read_of(ram, pc)
    /\ status' = "KeyError"
    /\ accessed' = {pc, pc + 1, pc + 2}
    /\ UNCHANGED <<ram, reg, pc, fl, output, file, steps, hist>>

\* A subscript of the fetch is out of range: IndexError at the first such.
FetchError ==
    /\ Running
    /\ ~FetchOK
    /\ LET bad == CHOOSE i \in 1..3 :
                     /\ ~ValidIdx(FetchAddrs[i], RamSize)
                     /\ \A j \in 1..(i - 1) : ValidIdx(FetchAddrs[j], RamSize)
       IN /\ ir' = IF bad = 1 THEN ir ELSE ram_read_of(ram, pc)
          /\ accessed' = {FetchAddrs[j] : j \in 1..bad}
    /\ status' = "IndexError"
    /\ UNCHANGED <<ram, reg, pc, fl, output, file, steps, hist>>

Next ==
    \/ Load
    \/ RunLDI \/ RunPRN \/ RunHLT \/ RunMUL \/ RunADD \/ RunCMP
    \/ RunPUSH \/ RunPOP \/ RunCALL \/ RunRET
    \/ RunJMP \/ RunJEQ \/ RunJNE
    \/ UnknownInstruction
    \/ FetchError

Spec == Init /\ [][Next]_vars

\* One iteration of the loop of run().
Iteration ==
    \/ RunLDI \/ RunPRN \/ RunHLT \/ RunMUL \/ RunADD \/ RunCMP
    \/ RunPUSH \/ RunPOP \/ RunCALL \/ RunRET
    \/ RunJMP \/ RunJEQ \/ RunJNE
    \/ UnknownInstruction
    \/ FetchError

\* run() is a `while True` loop on a single thread: as long as an iteration
\* is possible, one is taken.
FairSpec == Spec /\ WF_vars(Iteration)

\* The memory image CPU.load leaves for a file (all of it, or the part
\* written before load raised), and the values present in it.
Image(f) == LoadLines(f, [a \in 0..(RamSize - 1) |-> 0], 0).ram
ValuesOf(mem) == {mem[a] : a \in 0..(RamSize - 1)}

\* The opcodes with bit 4 set, whose handlers assign pc.
PCSetting == {CALL, RET, JMP, JEQ, JNE}
\* The files whose image holds none of them.
NoCtlFiles == {f \in Files : LET image == Image(f) IN ValuesOf(image) \cap PCSetting = {}}
NoCtl == file \in NoCtlFiles

\* ============================================================== claims
\* The instruction dispatched last and the one before it (hist is newest first).
Last == hist[1]
Prev == hist[2]
Completed == status = "running"

\* C1: after ADD A B register A holds (reg[A] + reg[B]) mod 256 and after
\* MUL A B it holds (reg[A] * reg[B]) mod 256.
C1_WrapMod256 ==
    [][/\ (RunADD /\ status' = "running")
            => reg'[oper_a] = (reg[oper_a] + reg[oper_b]) % 256
       /\ (RunMUL /\ status' = "running")
            => reg'[oper_a] = (reg[oper_a] * reg[oper_b]) % 256]_vars

\* C2: whenever the opcode at PC, for any PC in [0,256), is HLT, that step
\* moves the run from running to halted, and nothing changes afterwards.
C2_HltHalts ==
    [][/\ (Running /\ pc \in 0..(RamSize - 1) /\ ram[pc] = HLT) => status' = "halted"
       /\ status = "halted" => UNCHANGED vars]_vars

\* C3: JEQ jumps iff fl = 1 and JNE jumps iff fl # 1 (so also with the
\* initial fl = 0); a taken branch leaves pc = reg[mem[pc+1]], an untaken one
\* leaves pc = pc + 2 after the whole iteration; the untaken branch does not
\* read its register operand, so it completes whatever that operand is.
C3_Branches ==
    [][/\ (RunJEQ /\ status' = "running")
            => pc' = IF fl = 1 THEN reg[oper_a] ELSE pc + 2
       /\ (RunJNE /\ status' = "running")
            => pc' = IF fl # 1 THEN reg[oper_a] ELSE pc + 2
       /\ (RunJEQ /\ fl # 1) => status' = "running"
       /\ (RunJNE /\ fl = 1) => status' = "running"]_vars

\* C3 witness: a JNE met the initial fl = 0 (no CMP yet) and jumped to the
\* address in its register, away from pc + 2.
C3_Witness ==
    /\ hist # <<>>
    /\ Completed
    /\ Last.op = JNE
    /\ fl = 0
    /\ ram[Last.pc + 1] \in 0..7
    /\ pc = reg[ram[Last.pc + 1]]
    /\ pc # Last.pc + 2

\* C4: CMP A B, A and B registers, leaves fl = 4 if reg[A] < reg[B], 2 if
\* reg[A] > reg[B], 1 if equal, whatever fl was, and changes no register.
C4_Cmp ==
    [][(RunCMP /\ oper_a \in 0..7 /\ oper_b \in 0..7)
          => /\ fl' = IF reg[oper_a] < reg[oper_b] THEN 4
                      ELSE IF reg[oper_a] > reg[oper_b] THEN 2 ELSE 1
             /\ reg' = reg
             /\ status' = "running"]_vars

\* C4 witness: two comparisons in a row, the second replacing "less" by
\* "greater".
C4_Witness ==
    /\ Len(hist) = 2
    /\ Completed
    /\ Last.op = CMP
    /\ Prev.op = CMP
    /\ fl = 2
    /\ reg[ram[Prev.pc + 1]] < reg[ram[Prev.pc + 2]]

\* C5: right after LDI r, v with r a register, register r holds v.
C5_Ldi ==
    [][(RunLDI /\ oper_a \in 0..7)
          => /\ reg'[oper_a] = oper_b
             /\ status' = "running"]_vars

\* C5 witness: an LDI into register 3 of the value 250 has completed.
C5_Witness ==
    /\ hist # <<>>
    /\ Completed
    /\ Last.op = LDI
    /\ ram[Last.pc + 1] = 3
    /\ ram[Last.pc + 2] = 250
    /\ reg[3] = 250

\* C6: a PUSH and then a POP as the next instruction leave the stack pointer
\* at its value before the PUSH.
C6_PushPop ==
    (Len(hist) = 2 /\ Completed /\ Last.op = POP /\ Prev.op = PUSH)
        => stack_pointer = Prev.sp

\* C6 witness: the pair has run from stack pointer 0 (through -1).
C6_Witness ==
    /\ Len(hist) = 2
    /\ Completed
    /\ Last.op = POP
    /\ Prev.op = PUSH
    /\ Prev.sp = 0
    /\ Last.sp = -1

\* The files holding LDI 0,a; LDI 1,b; MUL 0,1; PRN 0; HLT with a * b < 256.
MultCases ==
    UNION {{[a |-> a, b |-> b, f |-> FileOf(MultProg(a, b))],
            [a |-> a, b |-> b, f |-> Annotated(MultProg(a, b))]} :
              a \in Vals, b \in Vals}

\* C7: from pc = 0 with memory holding LDI 0,a; LDI 1,b; MUL 0,1; PRN 0; HLT
\* and a * b < 256, the run never faults, keeps running until its fifth
\* instruction, prints a * b once (at the fourth) and nothing else, and is
\* halted by HLT.
C7_Mult ==
    \A c \in MultCases :
        (file = c.f /\ c.a * c.b < 256)
            => /\ status \notin Faults
               /\ status = "running"
                    => /\ steps < 5
                       /\ output = IF steps = 4 THEN <<c.a * c.b>> ELSE <<>>
               /\ status = "halted"
                    => /\ steps = 5
                       /\ ir = HLT
                       /\ output = <<c.a * c.b>>

\* C7 witness: the run of the spec's program (a = 8, b = 9) has halted after
\* printing 72.
C7_Witness ==
    /\ file = FileOf(MultProg(8, 9))
    /\ status = "halted"
    /\ output = <<72>>

\* C8: when the byte fetched at pc is not a registered opcode the iteration
\* ends the run in an exception, with registers, memory, flags, pc and output
\* as they were, and nothing happens after an exception.
C8_Unknown ==
    [][/\ (Running /\ ValidIdx(pc, RamSize) /\ ram_read_of(ram, pc) \notin branchtable)
            => /\ status' \in Faults
               /\ UNCHANGED <<reg, ram, fl, pc, output, steps>>
       /\ status \in Faults => UNCHANGED vars]_vars

\* C8 witness: the run ended in the KeyError of the branch table on opcode 0.
C8_Witness ==
    /\ status = "KeyError"
    /\ ir = 0
    /\ ram_read_of(ram, pc) = 0
    /\ steps > 0

\* C9 as claimed: LDI, PRN, ADD, MUL, CMP, JMP, JEQ and JNE leave register 7
\* unchanged whatever their operands.
C9_OnlyStackOps ==
    [][(RunLDI \/ RunPRN \/ RunADD \/ RunMUL \/ RunCMP \/ RunJMP \/ RunJEQ \/ RunJNE)
          => reg'[7] = reg[7]]_vars

\* C9 amended: PRN, CMP, JMP, JEQ and JNE leave register 7 unchanged, and so
\* do LDI, ADD and MUL unless their first operand is 7.
C9_Amended ==
    [][(\/ RunPRN \/ RunCMP \/ RunJMP \/ RunJEQ \/ RunJNE
        \/ ((RunLDI \/ RunADD \/ RunMUL) /\ oper_a # 7))
          => reg'[7] = reg[7]]_vars

\* C9 witness: an ADD with register 7 as its second operand (value not 0)
\* and another register as its first has completed, register 7 untouched.
C9_Witness ==
    /\ hist # <<>>
    /\ Completed
    /\ Last.op = ADD
    /\ ram[Last.pc + 1] # 7
    /\ ram[Last.pc + 2] = 7
    /\ stack_pointer = Last.sp
    /\ stack_pointer # 0

\* C10: every subscript applied to memory in an iteration lies in [0,256).
C10_InRange == accessed \subseteq 0..(RamSize - 1)

\* C11: an iteration that applies a subscript outside [0,256) to memory (a
\* PUSH or CALL with the stack pointer at 0, address -1) ends the run in a
\* fault and leaves every memory cell as it was.
C11_NoWraparound ==
    [][(status = "running" /\ ~(accessed' \subseteq 0..(RamSize - 1)))
          => /\ status' \in Faults
             /\ ram' = ram]_vars

\* C12: in every reachable state each of the 8 registers holds a value in
\* 0..255.
C12_RegistersAreBytes == \A r \in 0..(RegSize - 1) : reg[r] \in 0..255

\* A line yields 8 digit characters among its first 8 characters.
Accepted(line) == Len(line) >= 8 /\ \A i \in 1..8 : line[i] \in Digits
\* Its first 8 characters are binary digits, and the byte they spell.
Binary8(line) == Len(line) >= 8 /\ \A i \in 1..8 : line[i] \in {"0", "1"}
RECURSIVE BitSum(_, _)
BitSum(line, i) ==
    IF i > 8 THEN 0
    ELSE (IF line[i] = "1" THEN 2 ^ (8 - i) ELSE 0) + BitSum(line, i + 1)
Byte8(line) == BitSum(line, 1)
\* The number of accepted lines among the first i lines of f.
Rank(f, i) == Cardinality({j \in 1..i : Accepted(f[j])})
\* The accepted lines the loader cannot store: not binary, or beyond the
\* last cell.
Unloadable(f) ==
    {i \in 1..Len(f) : Accepted(f[i]) /\ (~Binary8(f[i]) \/ Rank(f, i) > RamSize)}
\* The lines the loader gets to: all, or those before the first unloadable.
Reached(f) ==
    IF Unloadable(f) = {} THEN 1..Len(f)
    ELSE 1..((CHOOSE i \in Unloadable(f) : \A j \in Unloadable(f) : i <= j) - 1)

\* C13 as claimed: load leaves the k-th line that yields 8 digit characters
\* (here: each one that spells a byte and has k <= 256) at address k - 1.
C13_EveryAcceptedLine ==
    [][(status = "new" /\ status' # "new")
          => \A i \in 1..Len(file') :
                  (Binary8(file'[i]) /\ Rank(file', i) <= RamSize)
                      => ram'[Rank(file', i) - 1] = Byte8(file'[i])]_vars

\* C13 amended: load leaves the k-th accepted line at address k - 1, for the
\* lines before the first accepted line that is not binary or is the 257th;
\* every other cell stays 0; skipped lines take no address; load goes on to
\* run iff there is no such line, and raises at it otherwise.
C13_Load ==
    [][(status = "new" /\ status' # "new") =>
         LET f == file'
             loaded == {i \in Reached(f) : Accepted(f[i])}
         IN /\ \A i \in loaded : ram'[Rank(f, i) - 1] = Byte8(f[i])
            /\ {a \in 0..(RamSize - 1) : ram'[a] # 0} \subseteq 0..(Cardinality(loaded) - 1)
            /\ (status' = "running") = (Unloadable(f) = {})
            /\ status' \in {"running", "ValueError", "IndexError"}]_vars

\* C13 witness: a file with a comment, a blank and a short line among its
\* lines has been loaded, its fourth accepted line (the seventh line) in
\* cell 3 and its last in cell 11.
C13_Witness ==
    /\ file = Annotated(MultProg(8, 9))
    /\ status = "running"
    /\ steps = 0
    /\ ~Accepted(file[1]) /\ ~Accepted(file[5]) /\ ~Accepted(file[6])
    /\ ram[3] = LDI
    /\ ram[11] = HLT
    /\ ram[12] = 0

\* C14: an iteration of LDI, ADD, MUL or CMP leaves pc 3 further and one of
\* PRN, PUSH or POP 2 further, which is bits 6-7 of the opcode plus 1; an
\* iteration of CALL, RET, JMP, JEQ or JNE leaves pc at the value its handler
\* assigned, with nothing added.
C14_PcAdvance ==
    [][(status = "running" /\ status' = "running" /\ steps' = steps + 1) =>
         LET op == ram_read_of(ram, pc)
             sp == stack_pointer
         IN /\ op \in {LDI, ADD, MUL, CMP} => pc' = pc + 3
            /\ op \in {PRN, PUSH, POP} => pc' = pc + 2
            /\ op \in {LDI, ADD, MUL, CMP, PRN, PUSH, POP}
                  => pc' = pc + ((op \div 64) % 4) + 1
            /\ op = CALL => pc' = reg'[Norm(pc + 1, RegSize)]
            /\ op = RET => pc' = ram_read_of(ram, sp)
            /\ op = JMP => pc' = reg[oper_a]
            /\ op = JEQ => pc' = IF fl = 1 THEN reg[oper_a] ELSE pc + 2
            /\ op = JNE => pc' = IF fl # 1 THEN reg[oper_a] ELSE pc + 2]_vars

\* C14 witness: a RET has left pc at the byte it popped (7), not one cell
\* after itself.
C14_Witness ==
    /\ Len(hist) = 2
    /\ Completed
    /\ Last.op = RET
    /\ pc = 7
    /\ pc = ram_read_of(ram, Last.sp)
    /\ pc # Last.pc + 1

\* C15: CALL at address pc decrements the stack pointer, stores the byte
\* mem[pc+1] in the cell at the new stack pointer and nowhere else, and sets
\* pc to reg[pc+1], the register whose index is the address pc + 1 (read
\* after the decrement); a CALL at pc >= 7 ends the run in a fault.
C15_Call ==
    [][RunCALL =>
         LET sp == stack_pointer - 1 IN
         /\ reg' = [reg EXCEPT ![7] = sp]
         /\ pc >= 7 => status' \in Faults
         /\ (status' = "running") = (ValidIdx(sp, RamSize) /\ -9 <= pc /\ pc < 7)
         /\ ValidIdx(sp, RamSize)
               => ram' = [ram EXCEPT ![Norm(sp, RamSize)] = ram[Norm(pc + 1, RamSize)]]
         /\ status' = "running" => pc' = reg'[Norm(pc + 1, RegSize)]]_vars

\* C15 witness: the CALL 7 in cell 3 has completed: pc is reg[4] = 5, not
\* reg[7], and the byte 7 is in the stack slot 243.
C15_Witness ==
    /\ hist # <<>>
    /\ Completed
    /\ Last.op = CALL
    /\ Last.pc = 3
    /\ ram[4] = 7
    /\ reg[4] = 5
    /\ pc = 5
    /\ stack_pointer = 243
    /\ ram[243] = 7

\* C16: after a CALL at p and a RET as the next instruction the stack
\* pointer has its value before the CALL and pc is the byte in mem[p+1].
C16_CallRet ==
    (Len(hist) = 2 /\ Completed /\ Last.op = RET /\ Prev.op = CALL)
        => /\ stack_pointer = Prev.sp
           /\ pc = ram_read_of(ram, Prev.pc + 1)

\* C16 witness: CALL 7 in cell 3, then RET: pc is 7, not the return address 5.
C16_Witness ==
    /\ Len(hist) = 2
    /\ Completed
    /\ Last.op = RET
    /\ Prev.op = CALL
    /\ Prev.pc = 3
    /\ pc = 7
    /\ pc # Prev.pc + 2
    /\ stack_pointer = 244

\* C17: fl is always 0, 1, 2 or 4; no instruction but CMP changes it; a
\* completed CMP leaves exactly one bit set; so fl is 0 only until the first
\* completed CMP.
C17_Flags ==
    /\ [](fl \in {0, 1, 2, 4})
    /\ [][/\ ~RunCMP => fl' = fl
          /\ (RunCMP /\ status' = "running") => fl' \in {1, 2, 4}
          /\ fl # 0 => fl' # 0]_vars

\* C17 witness: the flag set by a CMP ("less") is still there after the PRN
\* that followed it.
C17_Witness ==
    /\ Len(hist) = 2
    /\ Completed
    /\ Last.op = PRN
    /\ Prev.op = CMP
    /\ fl = 4

====
